---- MODULE Spec2Model ----
(***************************************************************************)
(* Call builders of the generated Google API clients (youtubereporting1    *)
(* and documentai1_beta2): the builder setters and doit(), the one         *)
(* operation that issues the HTTP request, as a state machine.             *)
(*                                                                         *)
(* A hub owns the HTTP client and the authenticator, each in a RefCell.    *)
(* A call builder is created from the hub, configured with its setters     *)
(* and consumed by doit(), an async fn: its future runs from one await to  *)
(* the next without interruption, and futures of several calls may be      *)
(* polled interleaved on one thread.                                       *)
(***************************************************************************)
EXTENDS Integers, FiniteSets, Sequences, TLC

VARIABLES hub, call

vars == <<hub, call>>

(***************************************************************************)
(* Bounds of the model.                                                    *)
(***************************************************************************)
\* Setter calls made before doit: those on the hub (user_agent, base_url,
\* root_url) and those on the builder made from it (param, add_scope, the
\* property setters, delegate), counted together.
MaxSetterCalls == 2
\* The observation counters (requests, token requests, retries, sleeps)
\* stop counting here: a value of MaxCount reads "MaxCount or more".
MaxCount == 2

\* The call builders alive on the hub.
Calls == {1, 2}

(***************************************************************************)
(* The two generated modules and the call builders modelled of each.       *)
(***************************************************************************)
Apis == {"youtubereporting1", "documentai1_beta2"}

KindsOf(api) ==
    IF api = "youtubereporting1"
    THEN {"jobs.reports.get", "media.download"}
    ELSE {"projects.documents.batchProcess"}

\* enum Scope of each module.
ScopesOf(api) ==
    IF api = "youtubereporting1"
    THEN {"YtAnalyticMonetaryReadonly", "YtAnalyticReadonly"}
    ELSE {"CloudPlatform"}

\* The scope doit inserts when the builder holds none.
DefaultScope(kind) ==
    IF kind = "projects.documents.batchProcess"
    THEN "CloudPlatform"
    ELSE "YtAnalyticMonetaryReadonly"

\* The names doit refuses in _additional_params, in the order it tests them.
ClashFields(kind) ==
    CASE kind = "jobs.reports.get" ->
            <<"alt", "jobId", "reportId", "onBehalfOfContentOwner">>
      [] kind = "media.download" -> <<"resourceName">>
      [] kind = "projects.documents.batchProcess" -> <<"alt", "parent">>

\* The parameters of a call that have their own setter.
KnownParams(kind) ==
    CASE kind = "jobs.reports.get" -> {"jobId", "reportId", "onBehalfOfContentOwner"}
      [] kind = "media.download" -> {"resourceName"}
      [] kind = "projects.documents.batchProcess" -> {"parent"}

HttpMethod(kind) ==
    IF kind = "projects.documents.batchProcess" THEN "POST" ELSE "GET"

\* The path properties of a call, set when the method builder makes it.
PathParams(kind) ==
    CASE kind = "jobs.reports.get" -> {"jobId", "reportId"}
      [] kind = "media.download" -> {"resourceName"}
      [] kind = "projects.documents.batchProcess" -> {"parent"}
      [] OTHER -> {}

\* The arguments handed to the method builders (one choice for each) and
\* the values handed to the property setters; "a b" holds a character that
\* URLs escape.
MethodArgs(kind) ==
    CASE kind = "jobs.reports.get" -> {{<<"jobId", "j0">>, <<"reportId", "r0">>}}
      [] kind = "media.download" -> {{<<"resourceName", "m0">>}}
      [] kind = "projects.documents.batchProcess" -> {{<<"parent", "p0">>}}
PropertyNames ==
    {"jobId", "reportId", "onBehalfOfContentOwner", "resourceName", "parent"}
PropertyValues == {"x1", "a b"}
\* The request values of documents.batchProcess: at creation, to the setter.
MethodRequest(kind) ==
    IF kind = "projects.documents.batchProcess" THEN "request0" ELSE "none"
RequestValues == {"request1", "request2"}

\* The values handed to the setters of the hub; "not a url" is a base URL
\* that url::Url::parse refuses.
DefaultUserAgent == "google-api-rust-client/1.0.14"
ServiceUrl(api) ==
    IF api = "youtubereporting1"
    THEN "https://youtubereporting.googleapis.com/"
    ELSE "https://documentai.googleapis.com/"
UserAgents == {"agent1", "agent2"}
BaseUrls == {"http://localhost:8080/", "not a url"}
RootUrls == {"http://localhost:8080/"}

\* Names and values handed to param(). _additional_params, a HashMap, is the
\* set of its <<name, value>> entries.
ParamNames == {"alt", "jobId", "parent", "resourceName", "key"}
ParamValues == {"json", "media"}
\* The param() calls made: the names doit may look at the value of ("alt")
\* or pass on ("key") with both values, the others with one.
ParamInputs ==
    {p \in ParamNames \X ParamValues : p[1] \in {"alt", "key"} \/ p[2] = "media"}

(***************************************************************************)
(* The collaborators: authenticator, delegate, server.                     *)
(***************************************************************************)
AuthErrs == {"AuthError"}
TransportErrs == {"ConnectError"}
Statuses == {200, 404}
Durations == {1, 2}

\* hyper's StatusCode::is_success.
IsSuccess(status) == status >= 200 /\ status < 300

\* What reading the response body can give: a body text of one of three
\* shapes, a read error, or bytes that are not UTF-8.
BodyTexts == {"resource", "error_response", "text"}
BodyPanics == {"read_error", "invalid_utf8"}

\* json::from_str into the call's response type: every field of the response
\* structs is optional, so any JSON object decodes.
DecodesAsResponse(body) == body \in {"resource", "error_response"}
\* json::from_str::<client::ErrorResponse>.
ParsesAsErrorResponse(body) == body = "error_response"

NoToken == [by |-> "none", scopes |-> {}]
\* The token the authenticator hands out for a set of scopes.
AuthToken(scopes) == [by |-> "authenticator", scopes |-> scopes]
\* The tokens a delegate may supply from delegate.token().
DelegateTokens == {[by |-> "delegate", scopes |-> {}]}

\* Answers of delegate.http_error / delegate.http_failure: Retry::Abort or
\* Retry::After(d).
Abort == [retry |-> FALSE, d |-> 0]
After(d) == [retry |-> TRUE, d |-> d]
RetryAnswers == {Abort} \cup {After(d) : d \in Durations}

\* A URL: the base it starts with, the segments of its path, the <<name,
\* value>> pairs of its query in their order.
NoUrl == [base |-> "none", path |-> <<>>, query |-> <<>>]
NoRequest == [method |-> "none", url |-> NoUrl, user_agent |-> "none",
              bearer |-> NoToken, body |-> "none"]
NoResponse == [status |-> 0, body |-> "none"]
NoValue == [of |-> "none", body |-> "none"]
NoResult == [kind |-> "none", field |-> "none", err |-> "none",
             response |-> NoResponse, value |-> NoValue]

Inc(n) == IF n < MaxCount THEN n + 1 ELSE n

(***************************************************************************)
(* Hub::new and the method builders.                                       *)
(***************************************************************************)
\* RefCell borrow state: 0 when not borrowed, else the call holding the
\* RefMut. What was observed of the hub's setters, until a method builder
\* borrows the hub:
\*   nset      the setter calls made
\*   setter    the setter called last, given: the last argument of each
\*             setter (the default before its first call)
\*   returned  what the last setter call returned
NewHub(api) ==
    [ api |-> api, auth |-> 0, client |-> 0,
      _user_agent |-> DefaultUserAgent,
      _base_url |-> ServiceUrl(api),
      _root_url |-> ServiceUrl(api),
      nset |-> 0, setter |-> "none", returned |-> "none",
      given |-> [_user_agent |-> DefaultUserAgent,
                 _base_url |-> ServiceUrl(api),
                 _root_url |-> ServiceUrl(api)] ]

\* A call builder as its method builder makes it, with doit's locals and
\* what was observed of its run:
\*   _properties      _job_id, _report_id, _on_behalf_of_content_owner,
\*       _resource_name, _parent: the <<name, value>> of each property that
\*       holds a value (an optional property never set holds none)
\*   _request, _delegate   "none" where the call has no request; "none" or
\*       "user" for None or Some(the user's delegate)
\*   nsetters         setter calls made on the hub and the builder, until
\*       doit consumes the builder
\*   token, url, enable_resource_parsing   locals of doit
\*   req, res, err    the last request issued, response and transport error
\*   authErr, dlgToken, sent, outcome   of the current attempt: the
\*       authenticator's error, delegate.token's answer, the requests issued
\*       and how the request ended ("transport_error" or "response")
\*   retry            the delegate's last answer to http_error / http_failure
\*   dlg              doit's local: the delegate that receives the callbacks
\*   dlgLast, finished   the last delegate callback, finished()'s argument
\*   called           the callbacks made since doit began or, once in the
\*       loop, since the current attempt began, as <<receiver, callback>>
\*   nreq, ntok, nretry, nsleep   requests issued, tokens requested of the
\*       authenticator, Retry::After answers, sleeps; slept: the last sleep
\*   inflight         requests issued whose outcome is still to come
\*   added, cleared   the scopes given to add_scope(Some(..)); whether the
\*       last add_scope call was add_scope(None)
\*   asked            the scopes of the last authenticator.token(..) call
\*   created          the arguments the method builder was given
\*   given, givenParams, givenRequest   the argument of the last call of each
\*       property setter, of param() for each name, and of request()
NewCall(kind, args) ==
    [ pc |-> "build",
      kind |-> kind,
      _properties |-> args,
      _request |-> MethodRequest(kind),
      _delegate |-> "none",
      _additional_params |-> {},
      _scopes |-> {},
      nsetters |-> 0,
      url |-> NoUrl,
      enable_resource_parsing |-> TRUE,
      token |-> NoToken,
      req |-> NoRequest,
      res |-> NoResponse,
      err |-> "none",
      authErr |-> "none",
      dlgToken |-> NoToken,
      sent |-> 0,
      outcome |-> "none",
      retry |-> Abort,
      result |-> NoResult,
      dlgLast |-> "none",
      finished |-> "none",
      nreq |-> 0, ntok |-> 0, nretry |-> 0, nsleep |-> 0,
      slept |-> 0, inflight |-> 0,
      added |-> {}, cleared |-> FALSE, asked |-> {},
      created |-> args,
      given |-> {}, givenParams |-> {}, givenRequest |-> "none",
      dlg |-> "none", called |-> <<>> ]

NoCall == [NewCall("none", {}) EXCEPT !.pc = "absent"]

\* A hub as Hub::new makes it; no call builder yet.
Init ==
    \E api \in Apis :
        /\ hub = NewHub(api)
        /\ call = [c \in Calls |-> NoCall]

\* Two call builders made from the same hub.
InitShared ==
    \E api \in Apis :
        /\ hub = NewHub(api)
        /\ \E k1, k2 \in KindsOf(api) :
              \E a1 \in MethodArgs(k1), a2 \in MethodArgs(k2) :
                  call = [c \in Calls |->
                             IF c = 1 THEN NewCall(k1, a1) ELSE NewCall(k2, a2)]

(***************************************************************************)
(* Scheduling: a future runs without interruption between two awaits, so a *)
(* call takes a step only while every other call rests at an await (or has *)
(* not started, or is over). A panic unwinds the thread polling the        *)
(* futures: nothing runs after it.                                         *)
(***************************************************************************)
RestPcs == {"absent", "build", "await_token", "await_request", "await_body", "done"}

CanRun(c) == \A d \in Calls \ {c} : call[d].pc \in RestPcs

ContainsKey(m, name) == \E p \in m : p[1] = name
Insert(m, name, value) == {p \in m : p[1] # name} \cup {<<name, value>>}
Get(m, name) == (CHOOSE p \in m : p[1] = name)[2]

(***************************************************************************)
(* The hub's setters and method builders. The setters take &mut self, a    *)
(* call builder holds &hub: no setter runs while a builder or its doit is  *)
(* alive. The hub is configured first, then it makes its call.             *)
(***************************************************************************)
\* SetHubField with a slip: the new value is returned, not the old one.
SetHubFieldReturningNew(field, value) ==
    /\ \A c \in Calls : call[c].pc = "absent"
    /\ hub.nset < MaxSetterCalls
    /\ hub' = [hub EXCEPT ![field] = value,
                          !.returned = value,
                          !.given[field] = value,
                          !.setter = field,
                          !.nset = @ + 1]
    /\ UNCHANGED call

\* mem::replace(&mut self.field, value)
SetHubField(field, value) ==
    /\ \A c \in Calls : call[c].pc = "absent"
    /\ hub.nset < MaxSetterCalls
    /\ hub' = [hub EXCEPT ![field] = value,
                          !.returned = hub[field],
                          !.given[field] = value,
                          !.setter = field,
                          !.nset = @ + 1]
    /\ UNCHANGED call

user_agent(agent_name) == SetHubField("_user_agent", agent_name)
base_url(new_base_url) == SetHubField("_base_url", new_base_url)
root_url(new_root_url) == SetHubField("_root_url", new_root_url)

\* hub.jobs().reports_get(..), hub.media().download(..),
\* hub.projects().documents_batch_process(..): the builder borrows the hub.
Create(c, kind, args) ==
    /\ \A d \in Calls : call[d].pc = "absent"
    /\ call' = [call EXCEPT ![c] = [NewCall(kind, args) EXCEPT !.nsetters = hub.nset]]
    /\ hub' = [hub EXCEPT !.nset = 0, !.setter = "none", !.returned = "none"]

(***************************************************************************)
(* The builder's setters.                                                  *)
(***************************************************************************)
\* SetProperty with a slip: a property that holds a value keeps it.
SetPropertyOnce(c, name, value) ==
    /\ CanRun(c)
    /\ call[c].pc = "build"
    /\ call[c].nsetters < MaxSetterCalls
    /\ name \in KnownParams(call[c].kind)
    /\ call' = [call EXCEPT ![c]._properties =
                                IF ContainsKey(@, name) THEN @
                                ELSE Insert(@, name, value),
                            ![c].given = {p \in @ : p[1] # name}
                                            \cup {<<name, value>>},
                            ![c].nsetters = @ + 1]
    /\ UNCHANGED hub

\* job_id, report_id, on_behalf_of_content_owner, resource_name, parent.
SetProperty(c, name, value) ==
    /\ CanRun(c)
    /\ call[c].pc = "build"
    /\ call[c].nsetters < MaxSetterCalls
    /\ name \in KnownParams(call[c].kind)
    /\ call' = [call EXCEPT ![c]._properties = Insert(@, name, value),
                            ![c].given = {p \in @ : p[1] # name}
                                            \cup {<<name, value>>},
                            ![c].nsetters = @ + 1]
    /\ UNCHANGED hub

\* request(new_value), of the calls that send one.
Request(c, value) ==
    /\ CanRun(c)
    /\ call[c].pc = "build"
    /\ call[c].nsetters < MaxSetterCalls
    /\ call[c]._request # "none"
    /\ call' = [call EXCEPT ![c]._request = value,
                            ![c].givenRequest = value,
                            ![c].nsetters = @ + 1]
    /\ UNCHANGED hub

\* delegate(new_value)
Delegate(c) ==
    /\ CanRun(c)
    /\ call[c].pc = "build"
    /\ call[c].nsetters < MaxSetterCalls
    /\ call' = [call EXCEPT ![c]._delegate = "user",
                            ![c].nsetters = @ + 1]
    /\ UNCHANGED hub

Param(c, name, value) ==
    /\ CanRun(c)
    /\ call[c].pc = "build"
    /\ call[c].nsetters < MaxSetterCalls
    /\ call' = [call EXCEPT ![c]._additional_params = Insert(@, name, value),
                            ![c].givenParams = {p \in @ : p[1] # name}
                                                  \cup {<<name, value>>},
                            ![c].nsetters = @ + 1]
    /\ UNCHANGED hub

\* scope is <<>> for None and <<s>> for Some(s).
AddScope(c, scope) ==
    /\ CanRun(c)
    /\ call[c].pc = "build"
    /\ call[c].nsetters < MaxSetterCalls
    /\ call' = [call EXCEPT ![c]._scopes =
                                IF scope = <<>> THEN @ ELSE @ \cup {scope[1]},
                            ![c].added =
                                IF scope = <<>> THEN @ ELSE @ \cup {scope[1]},
                            ![c].cleared = (scope = <<>>),
                            ![c].nsetters = @ + 1]
    /\ UNCHANGED hub

(***************************************************************************)
(* doit, up to its loop.                                                   *)
(***************************************************************************)
RECURSIVE FirstClashFrom(_, _, _)
FirstClashFrom(fields, i, m) ==
    IF i > Len(fields) THEN "none"
    ELSE IF ContainsKey(m, fields[i]) THEN fields[i]
    ELSE FirstClashFrom(fields, i + 1, m)

\* FirstClash with a slip: only the first known field is tested.
FirstClashTestingOneField(kind, m) ==
    IF ContainsKey(m, ClashFields(kind)[1]) THEN ClashFields(kind)[1] ELSE "none"

\* The first known field found in _additional_params, "none" when there is
\* none.
FirstClash(kind, m) == FirstClashFrom(ClashFields(kind), 1, m)

\* media.download alone looks for an "alt" among the parameters; the other
\* calls always decode the response.
EnableResourceParsing(kind, m) ==
    IF kind = "media.download" /\ ContainsKey(m, "alt")
    THEN Get(m, "alt") = "json"
    ELSE TRUE

\* The known parameters in the order doit pushes them onto params, the
\* placeholders of the path as <<find_this, param_name>> in the order doit
\* replaces them, the names doit removes from params, and the path template
\* cut at its placeholders.
PushOrder(kind) ==
    CASE kind = "jobs.reports.get" -> <<"jobId", "reportId", "onBehalfOfContentOwner">>
      [] kind = "media.download" -> <<"resourceName">>
      [] kind = "projects.documents.batchProcess" -> <<"parent">>
Placeholders(kind) ==
    CASE kind = "jobs.reports.get" ->
            << <<"{jobId}", "jobId">>, <<"{reportId}", "reportId">> >>
      [] kind = "media.download" -> << <<"{+resourceName}", "resourceName">> >>
      [] kind = "projects.documents.batchProcess" -> << <<"{+parent}", "parent">> >>
RemovalOrder(kind) ==
    CASE kind = "jobs.reports.get" -> <<"reportId", "jobId">>
      [] kind = "media.download" -> <<"resourceName">>
      [] kind = "projects.documents.batchProcess" -> <<"parent">>
PathTemplate(kind) ==
    CASE kind = "jobs.reports.get" -> <<"v1/jobs/", "{jobId}", "/reports/", "{reportId}">>
      [] kind = "media.download" -> <<"v1/media/", "{+resourceName}">>
      [] kind = "projects.documents.batchProcess" ->
            <<"v1beta2/", "{+parent}", "/documents:batchProcess">>

\* params.push((name, value)) for each known parameter that holds a value.
RECURSIVE PushKnown(_, _, _)
PushKnown(names, i, properties) ==
    IF i > Len(names) THEN <<>>
    ELSE (IF ContainsKey(properties, names[i])
          THEN << <<names[i], Get(properties, names[i])>> >>
          ELSE <<>>) \o PushKnown(names, i + 1, properties)

\* for (name, value) in self._additional_params.iter(): the entries of the
\* HashMap in the order it iterates them, which is any order.
RECURSIVE Entries(_)
Entries(m) ==
    IF m = {} THEN <<>>
    ELSE LET p == CHOOSE q \in m : TRUE IN <<p>> \o Entries(m \ {p})

\* params.iter().position(|t| t.0 == name); 0 when there is none.
RECURSIVE PositionFrom(_, _, _)
PositionFrom(params, i, name) ==
    IF i > Len(params) THEN 0
    ELSE IF params[i][1] = name THEN i
    ELSE PositionFrom(params, i + 1, name)
Position(params, name) == PositionFrom(params, 1, name)

\* PushAlt with a slip: alt=json is pushed whatever params holds.
PushAltAlways(kind, params) == params \o << <<"alt", "json">> >>

\* params.push(("alt", "json")), which media.download does only when params
\* holds no alt.
PushAlt(kind, params) ==
    IF kind = "media.download" /\ Position(params, "alt") # 0
    THEN params
    ELSE params \o << <<"alt", "json">> >>

\* percent_encode(value, DEFAULT_ENCODE_SET), and the escaping of a path by
\* url::Url::parse: the same characters are escaped and what is escaped
\* stays as it is.
PercentEncode(value) == IF value = "a b" THEN "a%20b" ELSE value

\* Placeholders written {+name} take the value percent-encoded.
IsReservedExpansion(find_this) == find_this \in {"{+resourceName}", "{+parent}"}

\* url = url.replace(find_this, replace_with) for each placeholder, with the
\* first value of its name in params ("" when media.download and
\* batchProcess find none).
RECURSIVE ReplacePlaceholders(_, _, _, _)
ReplacePlaceholders(url, places, i, params) ==
    IF i > Len(places) THEN url
    ELSE LET find_this == places[i][1]
             at == Position(params, places[i][2])
             value == IF at = 0 THEN "" ELSE params[at][2]
             replace_with == IF IsReservedExpansion(find_this)
                             THEN PercentEncode(value) ELSE value
         IN  ReplacePlaceholders(
                 [j \in DOMAIN url |-> IF url[j] = find_this THEN replace_with ELSE url[j]],
                 places, i + 1, params)

\* indices_for_removal: the positions in params of the names to remove, all
\* taken before anything is removed.
RECURSIVE IndicesForRemoval(_, _, _)
IndicesForRemoval(params, names, i) ==
    IF i > Len(names) THEN <<>>
    ELSE (IF Position(params, names[i]) # 0
          THEN <<Position(params, names[i])>> ELSE <<>>)
         \o IndicesForRemoval(params, names, i + 1)

\* params.remove(index) for each index, one after the other.
RECURSIVE RemoveIndices(_, _, _)
RemoveIndices(params, indices, i) ==
    IF i > Len(indices) THEN params
    ELSE RemoveIndices(SubSeq(params, 1, indices[i] - 1)
                           \o SubSeq(params, indices[i] + 1, Len(params)),
                       indices, i + 1)

\* url::Url::parse accepts only an absolute URL.
UrlParses(base) == base # "not a url"

\* BuildUrl with a slip: the path parameters stay in the query.
BuildUrlKeepingPathParams(base, r) ==
    LET params == PushAlt(r.kind,
                          PushKnown(PushOrder(r.kind), 1, r._properties)
                              \o Entries(r._additional_params))
        url == ReplacePlaceholders(PathTemplate(r.kind), Placeholders(r.kind), 1, params)
    IN  [base |-> base,
         path |-> [j \in DOMAIN url |-> PercentEncode(url[j])],
         query |-> params]

\* The URL of the request, from self.hub._base_url and the builder r:
\* url::Url::parse_with_params(&url, params), where it parses.
BuildUrl(base, r) ==
    LET params == PushAlt(r.kind,
                          PushKnown(PushOrder(r.kind), 1, r._properties)
                              \o Entries(r._additional_params))
        url == ReplacePlaceholders(PathTemplate(r.kind), Placeholders(r.kind), 1, params)
        query == RemoveIndices(params,
                               IndicesForRemoval(params, RemovalOrder(r.kind), 1), 1)
    IN  [base |-> base,
         path |-> [j \in DOMAIN url |-> PercentEncode(url[j])],
         query |-> query]

\* EffectiveScopes with a slip: the default scope is inserted whatever the
\* builder holds.
EffectiveScopesWithDefault(kind, scopes) == scopes \cup {DefaultScope(kind)}

\* The scopes the token is requested for.
EffectiveScopes(kind, scopes) ==
    IF Cardinality(scopes) = 0 THEN {DefaultScope(kind)} ELSE scopes

\* The borrows of the hub's RefCells a call holds end when its locals drop.
Release(h, c) == [h EXCEPT !.auth = IF @ = c THEN 0 ELSE @,
                           !.client = IF @ = c THEN 0 ELSE @]

\* Receiver with a slip: the delegate given to the builder is ignored.
ReceiverAlwaysDefault(delegate) == "DefaultDelegate"

\* match self._delegate { Some(d) => d, None => &mut dd }
\* What a DefaultDelegate answers is not defined in these sources: its
\* answers are left as open as those of the user's delegate.
Receiver(delegate) == IF delegate = "none" THEN "DefaultDelegate" ELSE delegate

\* dlg.name(..): a callback of the delegate.
Callback(r, name) ==
    [r EXCEPT !.dlgLast = name, !.called = Append(@, <<r.dlg, name>>)]

\* delegate.finished(ok).
Finished(r, ok) == [Callback(r, "finished") EXCEPT !.finished = ok]

\* return result, from the call record r: doit's locals drop.
Return(c, r, result) ==
    /\ call' = [call EXCEPT ![c] = [r EXCEPT !.pc = "done", !.result = result]]
    /\ hub' = Release(hub, c)

\* A panic unwinds doit, from the call record r: its locals drop, nothing
\* is returned.
Unwind(c, r, why) ==
    /\ call' = [call EXCEPT ![c] = [r EXCEPT !.pc = "panicked", !.result.kind = why]]
    /\ hub' = Release(hub, c)

Panic(c, why) == Unwind(c, call[c], why)

DoitBegin(c) ==
    /\ CanRun(c)
    /\ call[c].pc = "build"
    /\ LET k == call[c].kind
           m == call[c]._additional_params
           clash == FirstClash(k, m)
           begun == Callback([call[c] EXCEPT !.dlg = Receiver(call[c]._delegate),
                                             !.nsetters = 0],
                             "begin")
       IN  IF clash # "none"
           THEN Return(c, Finished(begun, "false"),
                       [NoResult EXCEPT !.kind = "FieldClash", !.field = clash])
           ELSE IF ~UrlParses(hub._base_url)
           THEN Unwind(c, [begun EXCEPT !._scopes = EffectiveScopes(k, @)],
                       "UrlParseError")
           ELSE /\ call' = [call EXCEPT ![c] =
                              [begun EXCEPT
                                 !.pc = "loop",
                                 !.url = BuildUrl(hub._base_url, call[c]),
                                 !.enable_resource_parsing = EnableResourceParsing(k, m),
                                 !._scopes = EffectiveScopes(k, @)]]
                /\ UNCHANGED hub

(***************************************************************************)
(* doit's loop: one iteration is one attempt.                              *)
(***************************************************************************)
\* The locals of an iteration and what was observed of the last attempt,
\* at the start of the next one.
NewAttempt(r) ==
    [r EXCEPT !.token = NoToken, !.res = NoResponse, !.err = "none",
              !.authErr = "none", !.dlgToken = NoToken, !.sent = 0,
              !.outcome = "none", !.called = <<>>]

\* let mut authenticator = self.hub.auth.borrow_mut();
\* authenticator.token(scopes).await
BorrowAuth(c) ==
    /\ CanRun(c)
    /\ call[c].pc = "loop"
    /\ IF hub.auth # 0
       THEN Panic(c, "BorrowMutError")
       ELSE /\ hub' = [hub EXCEPT !.auth = c]
            /\ call' = [call EXCEPT ![c] =
                          [NewAttempt(call[c]) EXCEPT !.pc = "await_token",
                                                      !.asked = call[c]._scopes,
                                                      !.ntok = Inc(@)]]

\* RequestedToken with a slip: the token is requested for no scope at all.
RequestedTokenForNoScope(r) == AuthToken({})

\* The token the authenticator is asked for.
RequestedToken(r) == AuthToken(r._scopes)

\* The authenticator answers Ok(token).
TokenOk(c) ==
    /\ CanRun(c)
    /\ call[c].pc = "await_token"
    /\ call' = [call EXCEPT ![c].pc = "send",
                            ![c].token = RequestedToken(call[c])]
    /\ UNCHANGED hub

\* TokenErr with a slip: when the delegate has no token either, the attempt
\* goes on with an empty token.
TokenErrProceedingWithoutToken(c, err, answer) ==
    /\ CanRun(c)
    /\ call[c].pc = "await_token"
    /\ call' = [call EXCEPT ![c] =
                  [Callback(call[c], "token") EXCEPT !.pc = "send",
                                                     !.authErr = err,
                                                     !.dlgToken = answer,
                                                     !.token = answer]]
    /\ UNCHANGED hub

\* TokenErr with a slip: without a token the call starts another attempt
\* instead of returning MissingToken.
TokenErrRetrying(c, err, answer) ==
    /\ CanRun(c)
    /\ call[c].pc = "await_token"
    /\ LET asked == [Callback(call[c], "token") EXCEPT !.authErr = err,
                                                       !.dlgToken = answer]
       IN  /\ call' = [call EXCEPT ![c] =
                         IF answer = NoToken
                         THEN [asked EXCEPT !.pc = "loop"]
                         ELSE [asked EXCEPT !.pc = "send", !.token = answer]]
           /\ hub' = IF answer = NoToken THEN Release(hub, c) ELSE hub

\* The authenticator answers Err(err): delegate.token(&err) answers None
\* (NoToken) or Some(token).
TokenErr(c, err, answer) ==
    /\ CanRun(c)
    /\ call[c].pc = "await_token"
    /\ LET asked == [Callback(call[c], "token") EXCEPT !.authErr = err,
                                                       !.dlgToken = answer]
       IN  IF answer = NoToken
           THEN Return(c, Finished(asked, "false"),
                       [NoResult EXCEPT !.kind = "MissingToken", !.err = err])
           ELSE /\ call' = [call EXCEPT ![c] =
                              [asked EXCEPT !.pc = "send", !.token = answer]]
                /\ UNCHANGED hub

\* BuildRequest with a slip: the default user agent, not the hub's.
BuildRequestDefaultAgent(h, r) ==
    [method |-> HttpMethod(r.kind), url |-> r.url,
     user_agent |-> DefaultUserAgent, bearer |-> r.token, body |-> r._request]

\* The request of one attempt: hyper::Request::builder() with the method,
\* the URL, the hub's user agent, the bearer token and, where the call has
\* a request, the request value as the body.
BuildRequest(h, r) ==
    [method |-> HttpMethod(r.kind), url |-> r.url,
     user_agent |-> h._user_agent, bearer |-> r.token, body |-> r._request]

\* let mut client = &mut *self.hub.client.borrow_mut(); dlg.pre_request();
\* client.borrow_mut().request(req_builder).await
SendRequest(c) ==
    /\ CanRun(c)
    /\ call[c].pc = "send"
    /\ IF hub.client # 0
       THEN Panic(c, "BorrowMutError")
       ELSE /\ hub' = [hub EXCEPT !.client = c]
            /\ call' = [call EXCEPT ![c] =
                          [Callback(call[c], "pre_request") EXCEPT
                             !.pc = "await_request",
                             !.req = BuildRequest(hub, call[c]),
                             !.nreq = Inc(@),
                             !.sent = @ + 1,
                             !.inflight = @ + 1]]

\* if let Retry::After(d) = answer { sleep(d); continue; }: the call record
\* once the delegate has asked for a retry.
Retrying(r) == [r EXCEPT !.pc = "sleep", !.nretry = Inc(@)]

\* The request fails with a transport error: delegate.http_error(&err).
RequestErr(c, err, answer) ==
    /\ CanRun(c)
    /\ call[c].pc = "await_request"
    /\ LET got == [Callback(call[c], "http_error") EXCEPT
                      !.inflight = @ - 1,
                      !.outcome = "transport_error",
                      !.err = err,
                      !.retry = answer]
       IN  IF answer.retry
           THEN /\ call' = [call EXCEPT ![c] = Retrying(got)]
                /\ hub' = [hub EXCEPT !.client = 0]
           ELSE Return(c, Finished(got, "false"),
                       [NoResult EXCEPT !.kind = "HttpError", !.err = err])

\* SleepDuration with a slip: a fixed backoff instead of the delegate's.
SleepDurationFixed(r) == 1

\* The duration doit sleeps before a retry.
SleepDuration(r) == r.retry.d

\* sleep(d); continue;  -- the authenticator borrow ends with the iteration.
Sleep(c) ==
    /\ CanRun(c)
    /\ call[c].pc = "sleep"
    /\ call' = [call EXCEPT ![c].pc = "loop",
                            ![c].slept = SleepDuration(call[c]),
                            ![c].nsleep = Inc(@)]
    /\ hub' = Release(hub, c)

\* ResponseHead with a slip: on a non-success status the next attempt starts
\* at once, before the body of the response has been read.
ResponseHeadRetryingUnread(c, status) ==
    /\ CanRun(c)
    /\ call[c].pc = "await_request"
    /\ call' = [call EXCEPT ![c].pc = IF IsSuccess(status) THEN "await_body" ELSE "loop",
                            ![c].res = [status |-> status, body |-> "none"]]
    /\ hub' = IF IsSuccess(status) THEN [hub EXCEPT !.client = 0] ELSE Release(hub, c)

\* The response's head arrives: res.into_parts(), then
\* hyper::body::to_bytes(res_body).await. The client borrow ends with the
\* block of the request.
ResponseHead(c, status) ==
    /\ CanRun(c)
    /\ call[c].pc = "await_request"
    /\ call' = [call EXCEPT ![c].pc = "await_body",
                            ![c].res = [status |-> status, body |-> "none"]]
    /\ hub' = [hub EXCEPT !.client = 0]

\* to_bytes(..).await.unwrap() or String::from_utf8(..).unwrap() fails.
BodyUnreadable(c, why) ==
    /\ CanRun(c)
    /\ call[c].pc = "await_body"
    /\ Panic(c, why)

\* FailureResult with a slip: the body is never tried as an ErrorResponse.
FailureResultIgnoringBody(res) ==
    [NoResult EXCEPT !.kind = "Failure", !.response = res]

\* return match json::from_str::<client::ErrorResponse>(&res_body_string)
FailureResult(res) ==
    IF ParsesAsErrorResponse(res.body)
    THEN [NoResult EXCEPT !.kind = "BadRequest",
                          !.value = [of |-> "error_response", body |-> res.body]]
    ELSE [NoResult EXCEPT !.kind = "Failure", !.response = res]

\* The body of a response without success status is read:
\* delegate.http_failure(..).
BodyFailure(c, body, answer) ==
    /\ CanRun(c)
    /\ call[c].pc = "await_body"
    /\ ~IsSuccess(call[c].res.status)
    /\ LET got == [Callback(call[c], "http_failure") EXCEPT
                      !.inflight = @ - 1,
                      !.outcome = "response",
                      !.res.body = body,
                      !.retry = answer]
       IN  IF answer.retry
           THEN /\ call' = [call EXCEPT ![c] = Retrying(got)]
                /\ UNCHANGED hub
           ELSE Return(c, Finished(got, "false"), FailureResult(got.res))

\* SuccessResult with a slip: a body that does not decode gives Ok with a
\* default value.
SuccessResultDefaultingOnDecodeError(parse, res) ==
    IF parse /\ DecodesAsResponse(res.body)
    THEN [NoResult EXCEPT !.kind = "Ok", !.response = res,
                          !.value = [of |-> "decoded", body |-> res.body]]
    ELSE [NoResult EXCEPT !.kind = "Ok", !.response = res,
                          !.value = [of |-> "default", body |-> "none"]]

\* The result of a response with success status: the decoded value, a
\* default value where the resource is not parsed, or the decode error.
SuccessResult(parse, res) ==
    IF ~parse
    THEN [NoResult EXCEPT !.kind = "Ok", !.response = res,
                          !.value = [of |-> "default", body |-> "none"]]
    ELSE IF DecodesAsResponse(res.body)
    THEN [NoResult EXCEPT !.kind = "Ok", !.response = res,
                          !.value = [of |-> "decoded", body |-> res.body]]
    ELSE [NoResult EXCEPT !.kind = "JsonDecodeError",
                          !.value = [of |-> "text", body |-> res.body]]

\* BodySuccess with a slip: a body that does not decode starts another
\* attempt instead of ending the call.
BodySuccessRetryingDecodeError(c, body) ==
    /\ CanRun(c)
    /\ call[c].pc = "await_body"
    /\ IsSuccess(call[c].res.status)
    /\ LET got == [call[c] EXCEPT !.inflight = @ - 1,
                                  !.outcome = "response",
                                  !.res.body = body]
           result == SuccessResult(got.enable_resource_parsing, got.res)
       IN  IF result.kind = "Ok"
           THEN Return(c, Finished(got, "true"), result)
           ELSE /\ call' = [call EXCEPT ![c] =
                              [Callback(got, "response_json_decode_error")
                                  EXCEPT !.pc = "loop"]]
                /\ hub' = Release(hub, c)

\* The body of a response with success status is read.
BodySuccess(c, body) ==
    /\ CanRun(c)
    /\ call[c].pc = "await_body"
    /\ IsSuccess(call[c].res.status)
    /\ LET got == [call[c] EXCEPT !.inflight = @ - 1,
                                  !.outcome = "response",
                                  !.res.body = body]
           result == SuccessResult(got.enable_resource_parsing, got.res)
       IN  IF result.kind = "Ok"
           THEN Return(c, Finished(got, "true"), result)
           ELSE Return(c, Callback(got, "response_json_decode_error"), result)

Configure ==
    \/ \E v \in UserAgents : user_agent(v)
    \/ \E v \in BaseUrls : base_url(v)
    \/ \E v \in RootUrls : root_url(v)

Methods(c) ==
    \E k \in KindsOf(hub.api) : \E a \in MethodArgs(k) : Create(c, k, a)

Build(c) ==
    \/ \E p \in ParamInputs : Param(c, p[1], p[2])
    \/ \E s \in {<<>>} \cup {<<x>> : x \in ScopesOf(hub.api)} : AddScope(c, s)
    \/ \E n \in PropertyNames, v \in PropertyValues : SetProperty(c, n, v)
    \/ \E v \in RequestValues : Request(c, v)
    \/ Delegate(c)

Doit(c) ==
    \/ DoitBegin(c)
    \/ BorrowAuth(c)
    \/ TokenOk(c)
    \/ \E e \in AuthErrs, t \in {NoToken} \cup DelegateTokens : TokenErr(c, e, t)
    \/ SendRequest(c)
    \/ \E e \in TransportErrs, a \in RetryAnswers : RequestErr(c, e, a)
    \/ Sleep(c)
    \/ \E s \in Statuses : ResponseHead(c, s)
    \/ \E w \in BodyPanics : BodyUnreadable(c, w)
    \/ \E b \in BodyTexts, a \in RetryAnswers : BodyFailure(c, b, a)
    \/ \E b \in BodyTexts : BodySuccess(c, b)

\* The hub is configured and makes one call.
Next ==
    \/ Configure
    \/ Methods(1)
    \/ \E c \in Calls : Build(c) \/ Doit(c)

Spec == Init /\ [][Next]_vars

\* A call as its method builder makes it, and its doit.
NextLoop == Methods(1) \/ \E c \in Calls : Doit(c)

\* The call is made and doit is called on it; the executor keeps polling the
\* future and every future doit awaits (the token, the response, its body)
\* resolves: a step that can be taken is taken.
FairSpec == Init /\ [][NextLoop]_vars /\ WF_vars(NextLoop)

\* Two calls of one hub, their futures polled interleaved on one thread.
NextShared == \E c \in Calls : Doit(c)

SpecShared == InitShared /\ [][NextShared]_vars

(***************************************************************************)
(* What the checks below read off a call.                                  *)
(***************************************************************************)
\* The step issues an HTTP request of call c.
Issues(c) == call'[c].inflight = call[c].inflight + 1
\* The step starts a further attempt of call c (not its first one).
StartsFurtherAttempt(c) ==
    call[c].pc = "loop" /\ call'[c].pc = "await_token" /\ call[c].ntok >= 1
\* The last attempt ended in a transport error or a non-success status.
AttemptFailed(r) ==
    \/ r.outcome = "transport_error"
    \/ r.outcome = "response" /\ ~IsSuccess(r.res.status)

\* C1: a further attempt, and so a further HTTP request, starts only when
\* the previous attempt ended in a transport error or a non-success status
\* and the delegate answered Retry::After to it; an attempt issues at most
\* one request, and a call that has returned (Ok, JsonDecodeError,
\* MissingToken, FieldClash or any other result) issues none.
C1_RetryOnlyOnDelegateRetry ==
    [][\A c \in Calls :
          /\ StartsFurtherAttempt(c) =>
                AttemptFailed(call[c]) /\ call[c].retry.retry
          /\ Issues(c) => call[c].pc = "send" /\ call[c].sent = 0
          /\ call[c].pc = "done" => call'[c] = call[c]]_vars

\* A second request is in flight after the delegate asked for a retry.
C1_Witness ==
    call[1].nreq = 2 /\ call[1].pc = "await_request" /\ call[1].retry.retry

\* doit is over: it has returned, or a panic has unwound it.
Terminated(c) == call[c].pc \in {"done", "panicked"}

\* C2, as claimed: whatever the delegate and the server do, doit comes to an
\* end (here even an end by panic counts).
C2_AlwaysEnds == <>Terminated(1)

\* C2, amended: the loop has no bound of its own. doit comes to an end
\* unless the delegate answers Retry::After again and again: either the call
\* ends or it is sent to sleep by the delegate infinitely often.
C2_EndsUnlessDelegateKeepsRetrying ==
    <>Terminated(1) \/ []<>(call[1].pc = "sleep")

\* The delegate has asked for a retry more often than the counters count.
C2_Witness ==
    call[1].nretry = MaxCount /\ call[1].nreq = MaxCount /\ call[1].pc = "sleep"

\* C3: the requests of a call are sequential. At most one is in flight, none
\* is while doit is between two attempts (before the token is there, or
\* asleep), and a call whose delegate never answered Retry::After has issued
\* at most one request.
C3_OneRequestAtATime ==
    \A c \in Calls :
        /\ call[c].inflight <= 1
        /\ call[c].pc \in {"loop", "await_token", "send", "sleep"} =>
              call[c].inflight = 0
        /\ call[c].nretry = 0 => call[c].nreq <= 1

\* The body of the response to a second request is awaited.
C3_Witness ==
    call[1].nreq = 2 /\ call[1].inflight = 1 /\ call[1].pc = "await_body"

\* doit has been called on the builder.
Started(r) == r.pc \notin {"absent", "build"}
\* The names among `names` that param() has set on the builder.
SetAmong(r, names) == {p[1] : p \in {q \in r._additional_params : q[1] \in names}}
\* doit has failed with FieldClash naming one of `names`, before any token
\* was requested and any request issued.
ClashedOn(r, names) ==
    /\ r.pc = "done"
    /\ r.result.kind = "FieldClash"
    /\ r.result.field \in names
    /\ r.ntok = 0 /\ r.nreq = 0

\* C4, as claimed: a parameter set with param() whose name has its own setter
\* or is "alt" makes doit of any call fail with FieldClash.
C4_KnownOrAltClashes ==
    \A c \in Calls :
        LET known == SetAmong(call[c], KnownParams(call[c].kind) \cup {"alt"})
        IN  Started(call[c]) /\ known # {} => ClashedOn(call[c], known)

\* The names a call refuses: those with their own setter, and "alt" unless
\* the call is the media download.
RefusedParams(kind) ==
    KnownParams(kind) \cup (IF kind = "media.download" THEN {} ELSE {"alt"})

\* C4, amended: media.download accepts "alt". A parameter set with param()
\* whose name has its own setter, or is "alt" on a call other than
\* media.download, makes doit fail with FieldClash naming such a parameter,
\* before any token is requested and any request is issued.
C4_RefusedParamClashes ==
    \A c \in Calls :
        LET refused == SetAmong(call[c], RefusedParams(call[c].kind))
        IN  Started(call[c]) /\ refused # {} => ClashedOn(call[c], refused)

\* doit of documents.batchProcess has refused an additional "parent".
C4_Witness ==
    /\ call[1].kind = "projects.documents.batchProcess"
    /\ call[1].result.kind = "FieldClash"
    /\ call[1].result.field = "parent"

\* The variants of Error that doit returns, and Ok.
ResultKinds ==
    {"Ok", "FieldClash", "MissingToken", "HttpError", "Failure", "BadRequest",
     "JsonDecodeError"}

\* C5: a call that has returned holds one of the seven results. When its
\* last attempt ended in a transport error (which the delegate did not
\* retry, the call having returned) the result is HttpError with that error;
\* when it ended in a non-success status the result is BadRequest if the
\* body parses as an ErrorResponse and else Failure with the response, so
\* never Ok.
C5_ResultTaxonomy ==
    \A c \in Calls :
        call[c].pc = "done" =>
            /\ call[c].result.kind \in ResultKinds
            /\ call[c].outcome = "transport_error" =>
                  /\ call[c].result.kind = "HttpError"
                  /\ call[c].result.err = call[c].err
                  /\ call[c].err \in TransportErrs
            /\ call[c].outcome = "response" /\ ~IsSuccess(call[c].res.status) =>
                  IF ParsesAsErrorResponse(call[c].res.body)
                  THEN call[c].result.kind = "BadRequest"
                  ELSE /\ call[c].result.kind = "Failure"
                       /\ call[c].result.response = call[c].res

\* A 404 whose body is an ErrorResponse has been returned as BadRequest.
C5_Witness ==
    /\ call[1].pc = "done"
    /\ call[1].res = [status |-> 404, body |-> "error_response"]
    /\ call[1].result.kind = "BadRequest"

\* doit has returned Ok from a response with success status, whose body
\* decoded where the resource is parsed, and Ok carries that response and
\* the decoded value.
OkFromSuccess(r) ==
    /\ r.outcome = "response"
    /\ IsSuccess(r.res.status)
    /\ r.result.response = r.res
    /\ r.enable_resource_parsing =>
          /\ DecodesAsResponse(r.res.body)
          /\ r.result.value = [of |-> "decoded", body |-> r.res.body]

\* C6, as claimed: Ok comes from a success response that decoded, and the
\* bearer token of the request is the authenticator's token for the call's
\* scopes.
C6_OkWithAuthenticatorToken ==
    \A c \in Calls :
        call[c].pc = "done" /\ call[c].result.kind = "Ok" =>
            /\ OkFromSuccess(call[c])
            /\ call[c].req.bearer = AuthToken(call[c]._scopes)

\* C6, amended: the bearer token is the authenticator's token for the call's
\* scopes when the authenticator provided one, and the token delegate.token
\* supplied when the authenticator failed.
C6_OkWithAuthenticatorOrDelegateToken ==
    \A c \in Calls :
        call[c].pc = "done" /\ call[c].result.kind = "Ok" =>
            /\ OkFromSuccess(call[c])
            /\ IF call[c].authErr = "none"
               THEN call[c].req.bearer = AuthToken(call[c]._scopes)
               ELSE /\ call[c].req.bearer = call[c].dlgToken
                    /\ call[c].dlgToken \in DelegateTokens

\* Ok has been returned for a request that carried the delegate's token.
C6_Witness ==
    /\ call[1].pc = "done"
    /\ call[1].result.kind = "Ok"
    /\ call[1].req.bearer.by = "delegate"
    /\ call[1].result.value.of = "decoded"

\* C7: in an attempt whose token the authenticator failed to provide, when
\* delegate.token answered None the call has returned MissingToken with the
\* authenticator's error and the attempt has issued no request; when it
\* answered Some(token) the attempt goes on from the delegate's answer and
\* the request it issues carries exactly that token.
C7_MissingTokenOrDelegateToken ==
    \A c \in Calls :
        call[c].authErr # "none" =>
            IF call[c].dlgToken = NoToken
            THEN /\ call[c].pc = "done"
                 /\ call[c].result.kind = "MissingToken"
                 /\ call[c].result.err = call[c].authErr
                 /\ call[c].sent = 0
            ELSE /\ call[c].result.kind # "MissingToken"
                 /\ call[c].token = call[c].dlgToken
                 /\ call[c].pc = "send" => call[c].dlgLast = "token"
                 /\ call[c].sent >= 1 => call[c].req.bearer = call[c].dlgToken

\* A retry has ended in MissingToken: one request was issued, by the first
\* attempt, and none by the attempt that found no token.
C7_Witness ==
    /\ call[1].result.kind = "MissingToken"
    /\ call[1].nreq = 1
    /\ call[1].sent = 0

\* The request of an attempt carries the token the delegate supplied.
C7_WitnessDelegateToken ==
    /\ call[1].pc = "await_request"
    /\ call[1].authErr # "none"
    /\ call[1].req.bearer \in DelegateTokens

\* doit has returned JsonDecodeError with the body text, and the last
\* callback of the delegate is the notification response_json_decode_error:
\* the delegate was not asked about a retry.
ReturnedDecodeError(r) ==
    /\ r.result.kind = "JsonDecodeError"
    /\ r.result.value = [of |-> "text", body |-> r.res.body]
    /\ r.dlgLast = "response_json_decode_error"

\* C8, as claimed: once the body of a response with success status has been
\* read the call has returned, with nothing in flight, and when the body does
\* not decode into the response type it has returned JsonDecodeError.
C8_UndecodableBodyIsDecodeError ==
    \A c \in Calls :
        call[c].outcome = "response" /\ IsSuccess(call[c].res.status) =>
            /\ call[c].pc = "done"
            /\ call[c].inflight = 0
            /\ ~DecodesAsResponse(call[c].res.body) => ReturnedDecodeError(call[c])

\* C8, amended: the same where the call parses the resource, which every
\* call does but media.download given an "alt" other than "json"; that call
\* returns Ok with a default value whatever the body is.
C8_UndecodableBodyIsDecodeErrorWhereParsed ==
    \A c \in Calls :
        call[c].outcome = "response" /\ IsSuccess(call[c].res.status) =>
            /\ call[c].pc = "done"
            /\ call[c].inflight = 0
            /\ ~DecodesAsResponse(call[c].res.body) =>
                  IF call[c].kind = "media.download"
                     /\ \E p \in call[c]._additional_params :
                           p[1] = "alt" /\ p[2] # "json"
                  THEN /\ call[c].result.kind = "Ok"
                       /\ call[c].result.value.of = "default"
                  ELSE ReturnedDecodeError(call[c])

\* A 200 whose body is no JSON of the response type has been returned as
\* JsonDecodeError.
C8_Witness ==
    /\ call[1].res = [status |-> 200, body |-> "text"]
    /\ call[1].result.kind = "JsonDecodeError"

\* C9: two calls of one hub, their futures polled interleaved: no call
\* panics on borrow_mut() of hub.auth or hub.client because the other call
\* holds the borrow.
C9_NoDoubleBorrow ==
    \A c \in Calls : call[c].result.kind # "BorrowMutError"

\* C10: doit sleeps only where the delegate has just answered Retry::After(d)
\* to the outcome of an attempt, with nothing in flight, and it sleeps
\* exactly d and then starts over; a further attempt (its token request
\* first) starts only after every Retry::After was slept, the last sleep
\* being the d last asked for.
C10_SleepsAsDelegateAsked ==
    [][\A c \in Calls :
          /\ (call'[c].nsleep # call[c].nsleep \/ call'[c].slept # call[c].slept) =>
                call[c].pc = "sleep"
          /\ call[c].pc = "sleep" =>
                /\ call[c].retry.retry
                /\ AttemptFailed(call[c])
                /\ call[c].inflight = 0
                /\ call[c].nsleep <= call[c].nretry
                /\ call'[c].pc = "loop"
                /\ call'[c].slept = call[c].retry.d
                /\ call'[c].ntok = call[c].ntok
          /\ StartsFurtherAttempt(c) =>
                /\ call[c].nsleep = call[c].nretry
                /\ call[c].slept = call[c].retry.d]_vars

\* After a sleep of 2, asked for by the delegate, the next token is awaited.
C10_Witness ==
    /\ call[1].pc = "await_token"
    /\ call[1].nsleep = 1
    /\ call[1].slept = 2
    /\ call[1].retry = After(2)

\* C11, as claimed: when the last add_scope call on the builder was
\* add_scope(None), the builder holds no scope and doit requests its token
\* for the empty scope set, whatever was added before.
C11_NoneClearsScopes ==
    \A c \in Calls :
        call[c].cleared =>
            /\ call[c].pc = "build" => call[c]._scopes = {}
            /\ call[c].ntok >= 1 => call[c].asked = {}

\* The scopes doit is to request the token for: those added, or the default.
ScopesToRequest(r) ==
    IF r.added = {} THEN {DefaultScope(r.kind)} ELSE r.added

QueryPairs(r) == {r.url.query[i] : i \in DOMAIN r.url.query}
EachOnce(r) == Cardinality(QueryPairs(r)) = Len(r.url.query)
\* The optional properties of the builder that hold a value.
OptionalSet(r) == {p \in r._properties : p[1] \notin PathParams(r.kind)}
\* The value of a path property as a URL path carries it: the space of
\* "a b" is escaped.
InPath(r, name) ==
    LET v == (CHOOSE p \in r._properties : p[1] = name)[2]
    IN  IF v = "a b" THEN "a%20b" ELSE v
\* The path template of the call with its path properties in place.
PathOf(r) ==
    CASE r.kind = "jobs.reports.get" ->
            <<"v1/jobs/", InPath(r, "jobId"), "/reports/", InPath(r, "reportId")>>
      [] r.kind = "media.download" -> <<"v1/media/", InPath(r, "resourceName")>>
      [] r.kind = "projects.documents.batchProcess" ->
            <<"v1beta2/", InPath(r, "parent"), "/documents:batchProcess">>
\* doit has built its URL.
UrlBuilt(r) == r.url # NoUrl

\* C13, as claimed: the URL doit builds is the hub's base URL, the path
\* template with the path properties in place, and a query of exactly the
\* optional properties that were set, the additional parameters and
\* alt=json, each once; no path parameter is in the query.
C13_UrlAndQuery ==
    \A c \in Calls :
        UrlBuilt(call[c]) =>
            /\ call[c].url.base = hub._base_url
            /\ call[c].url.path = PathOf(call[c])
            /\ EachOnce(call[c])
            /\ QueryPairs(call[c]) =
                  OptionalSet(call[c]) \cup call[c]._additional_params
                      \cup {<<"alt", "json">>}
            /\ \A p \in QueryPairs(call[c]) : p[1] \notin PathParams(call[c].kind)

\* C13, amended: the same, except that the media download given an
\* additional parameter "alt" does not add alt=json.
C13_UrlAndQueryAltOnce ==
    \A c \in Calls :
        UrlBuilt(call[c]) =>
            /\ call[c].url.base = hub._base_url
            /\ call[c].url.path = PathOf(call[c])
            /\ EachOnce(call[c])
            /\ QueryPairs(call[c]) =
                  OptionalSet(call[c]) \cup call[c]._additional_params
                      \cup (IF call[c].kind = "media.download"
                                /\ \E p \in call[c]._additional_params : p[1] = "alt"
                            THEN {} ELSE {<<"alt", "json">>})
            /\ \A p \in QueryPairs(call[c]) : p[1] \notin PathParams(call[c].kind)

\* reports_get with the optional property set and one additional parameter:
\* the request is out with a query of three pairs.
C13_Witness ==
    /\ call[1].kind = "jobs.reports.get"
    /\ call[1].pc = "await_request"
    /\ QueryPairs(call[1]) =
          {<<"onBehalfOfContentOwner", "x1">>, <<"key", "media">>, <<"alt", "json">>}
    /\ call[1].req.url.path = <<"v1/jobs/", "j0", "/reports/", "r0">>

\* The values of the "alt" pairs in the query, and how many pairs there are.
AltValues(r) == {p[2] : p \in {q \in QueryPairs(r) : q[1] = "alt"}}
AltCount(r) == Cardinality({i \in DOMAIN r.url.query : r.url.query[i][1] = "alt"})
\* A response with success status has come with its body.
GotSuccess(r) == r.outcome = "response" /\ IsSuccess(r.res.status)

\* C14: the media download accepts an additional parameter "alt": doit does
\* not fail with FieldClash on it and the query holds that alt and no other.
\* With a value other than "json" a success response is returned as Ok with
\* a default value, whatever the body, and delegate.finished(true) is the
\* last callback. Without an additional alt the query holds alt=json once,
\* and a success response is Ok with the decoded body or, when it does not
\* decode, JsonDecodeError.
C14_MediaDownloadAlt ==
    \A c \in Calls :
        LET r == call[c]
            m == r._additional_params
        IN  r.kind = "media.download" /\ Started(r)
                /\ ~(\E p \in m : p[1] = "resourceName") =>
                /\ r.result.kind # "FieldClash"
                /\ UrlBuilt(r) => AltCount(r) = 1
                /\ IF \E p \in m : p[1] = "alt"
                   THEN LET v == (CHOOSE p \in m : p[1] = "alt")[2]
                        IN  /\ UrlBuilt(r) => AltValues(r) = {v}
                            /\ GotSuccess(r) /\ v # "json" =>
                                  /\ r.pc = "done"
                                  /\ r.result.kind = "Ok"
                                  /\ r.result.value = [of |-> "default", body |-> "none"]
                                  /\ r.finished = "true"
                                  /\ r.dlgLast = "finished"
                            /\ GotSuccess(r) /\ v = "json" =>
                                  r.result.kind = IF DecodesAsResponse(r.res.body)
                                                  THEN "Ok" ELSE "JsonDecodeError"
                   ELSE /\ UrlBuilt(r) => AltValues(r) = {"json"}
                        /\ GotSuccess(r) =>
                              IF DecodesAsResponse(r.res.body)
                              THEN /\ r.result.kind = "Ok"
                                   /\ r.result.value = [of |-> "decoded", body |-> r.res.body]
                              ELSE r.result.kind = "JsonDecodeError"

\* The media download with alt=media has returned Ok, with a default value,
\* for a body that is no JSON.
C14_Witness ==
    /\ call[1].kind = "media.download"
    /\ <<"alt", "media">> \in call[1]._additional_params
    /\ call[1].req.url.query = << <<"alt", "media">> >>
    /\ call[1].res = [status |-> 200, body |-> "text"]
    /\ call[1].result.kind = "Ok"
    /\ call[1].finished = "true"

HubFields == {"_user_agent", "_base_url", "_root_url"}

\* C15: a hub as Hub::new made it holds the documented defaults, and every
\* call of user_agent, base_url or root_url stores its argument, leaves the
\* other two fields alone and returns what the field held: the default at
\* the first call of a setter, the argument of its previous call later.
C15_SettersReturnPrevious ==
    /\ hub._user_agent = "google-api-rust-client/1.0.14"
    /\ hub._base_url = (IF hub.api = "youtubereporting1"
                        THEN "https://youtubereporting.googleapis.com/"
                        ELSE "https://documentai.googleapis.com/")
    /\ hub._root_url = hub._base_url
    /\ [][hub'.nset = hub.nset + 1 =>
             /\ hub'.setter \in HubFields
             /\ hub'.returned = hub.given[hub'.setter]
             /\ hub'[hub'.setter] = hub'.given[hub'.setter]
             /\ \A f \in HubFields \ {hub'.setter} :
                   hub'[f] = hub[f] /\ hub'.given[f] = hub.given[f]]_vars

\* The second call of user_agent has returned the argument of the first.
C15_Witness ==
    /\ hub.nset = 2
    /\ hub.setter = "_user_agent"
    /\ hub.returned = "agent1"
    /\ hub._user_agent = "agent2"

\* doit has issued a request (the last one is kept).
Issued(r) == r.req # NoRequest

\* C16: every request doit issues, the first and each retry's, carries the
\* user agent the hub holds and a URL that starts with the base URL the hub
\* holds.
C16_AgentAndBaseUrlOfHub ==
    \A c \in Calls :
        Issued(call[c]) =>
            /\ call[c].req.user_agent = hub._user_agent
            /\ call[c].req.url.base = hub._base_url

\* The request of a retry carries the agent and the base URL set on the hub.
C16_Witness ==
    /\ call[1].nreq = 2
    /\ call[1].pc = "await_request"
    /\ call[1].req.user_agent = "agent2"
    /\ call[1].req.url.base = "http://localhost:8080/"

\* C17, as claimed: the requests of the hub's calls are addressed using the
\* root URL the hub holds.
C17_RootUrlUsed ==
    \A c \in Calls :
        Issued(call[c]) => call[c].req.url.base = hub._root_url

\* How often the delegate callback `name` was made in the current attempt.
Count(r, name) == Cardinality({i \in DOMAIN r.called : r.called[i][2] = name})
Once(r, name, event) == Count(r, name) = IF event THEN 1 ELSE 0
\* A success response came whose body the call was to decode and could not.
DecodeFailed(r) ==
    GotSuccess(r) /\ r.enable_resource_parsing /\ ~DecodesAsResponse(r.res.body)

LastGiven(r, name) ==
    IF \E p \in r.given : p[1] = name
    THEN (CHOOSE p \in r.given : p[1] = name)[2]
    ELSE (CHOOSE p \in r.created : p[1] = name)[2]
Escaped(v) == IF v = "a b" THEN "a%20b" ELSE v
\* The values the query holds for a name.
ValuesOf(r, name) == {p[2] : p \in {q \in QueryPairs(r) : q[1] = name}}

\* C19: the setters are last-write-wins. The builder holds for each
\* additional parameter the value of the last param() call of that name.
\* The URL doit builds has in its path, for each path property, the argument
\* of the last call of its setter, or the method builder's argument when the
\* setter was never called; its query holds an optional property exactly
\* when its setter was called, with the last argument, and each additional
\* parameter with its last value only. The request sent is the argument of
\* the last request() call, or the method builder's.
C19_LastWriteWins ==
    \A c \in Calls :
        LET r == call[c]
        IN  /\ r._additional_params = r.givenParams
            /\ \A p, q \in r.givenParams : p[1] = q[1] => p = q
            /\ UrlBuilt(r) =>
                  /\ r.kind = "jobs.reports.get" =>
                        r.url.path = <<"v1/jobs/", Escaped(LastGiven(r, "jobId")),
                                       "/reports/", Escaped(LastGiven(r, "reportId"))>>
                  /\ r.kind = "media.download" =>
                        r.url.path = <<"v1/media/", Escaped(LastGiven(r, "resourceName"))>>
                  /\ r.kind = "projects.documents.batchProcess" =>
                        r.url.path = <<"v1beta2/", Escaped(LastGiven(r, "parent")),
                                       "/documents:batchProcess">>
                  /\ \A n \in KnownParams(r.kind) \ PathParams(r.kind) :
                        ValuesOf(r, n) = {p[2] : p \in {q \in r.given : q[1] = n}}
                  /\ \A p \in r.givenParams : ValuesOf(r, p[1]) = {p[2]}
            /\ Issued(r) =>
                  r.req.body = IF r.givenRequest # "none" THEN r.givenRequest
                               ELSE IF r.kind = "projects.documents.batchProcess"
                               THEN "request0" ELSE "none"

\* reports_get whose job_id and on_behalf_of_content_owner were set has sent
\* its request: the path has the job id set, escaped, and the report id of
\* reports_get(..).
C19_Witness ==
    /\ call[1].given = {<<"jobId", "a b">>, <<"onBehalfOfContentOwner", "x1">>}
    /\ call[1].pc = "await_request"
    /\ call[1].req.url.path = <<"v1/jobs/", "a%20b", "/reports/", "r0">>
    /\ ValuesOf(call[1], "onBehalfOfContentOwner") = {"x1"}

\* C20, as claimed: doit never panics, whatever the server answers and
\* whatever the hub and the builder were given.
C20_NoPanic ==
    \A c \in Calls : call[c].pc # "panicked"

\* C21, as claimed: when doit has returned, delegate.finished was called
\* exactly once, it is the last callback the delegate received, and its
\* argument is true exactly when doit returned Ok.
C21_FinishedOnceAndLast ==
    \A c \in Calls :
        LET r == call[c]
        IN  r.pc = "done" =>
                /\ Count(r, "finished") = 1
                /\ r.called[Len(r.called)][2] = "finished"
                /\ r.dlgLast = "finished"
                /\ r.finished = IF r.result.kind = "Ok" THEN "true" ELSE "false"

====
